---- MODULE Spec2Model ----
(***************************************************************************)
(* Model of app.py: the Flask application with its in-memory session       *)
(* registry (active_sessions), the /ping, /status and /api/session/create  *)
(* views, the 400/404/500 error handlers and the before/after request      *)
(* logging hooks.  Every request runs on its own worker thread; a thread   *)
(* executes its view one source statement group at a time, so the steps    *)
(* of concurrent requests interleave.                                      *)
(***************************************************************************)
EXTENDS Integers, Sequences, FiniteSets, TLC

(* ---- bounds ----------------------------------------------------------- *)
NumThreads == 2        \* worker threads serving requests concurrently
MaxUuid    == 2        \* size of the universe uuid.uuid4() draws from
MaxClock   == 1        \* the server clock runs over 0..MaxClock

Threads == 1..NumThreads
UUIDs   == 1..MaxUuid

VARIABLES
    active_sessions,      \* app.py:31  dict session_id -> session_data
    pending_validations,  \* app.py:34  dict, never written
    openai_key,           \* app.config.get('OPENAI_API_KEY'), "" when unset
    clock,                \* what datetime.now() returns
    pc,                   \* per thread: next statement group to run
    req,                  \* per thread: the request being served
    local,                \* per thread: the view's local variables
    reqLog,               \* per thread: log entries emitted for this request
    resp,                 \* per thread: the response produced
    inserts,              \* number of completed `active_sessions[k] = v`
    returned              \* the session ids returned with 201 so far

vars == <<active_sessions, pending_validations, openai_key, clock,
          pc, req, local, reqLog, resp, inserts, returned>>

(* ---- values ----------------------------------------------------------- *)
EmptyObj == [x \in {} |-> ""]

\* A request body as request.get_json() sees it.  kind "object" carries its
\* fields; "array" and "string" carry only their length.
Body(kind, fields, size) == [kind |-> kind, fields |-> fields, size |-> size]

Bodies ==
    { Body("absent", EmptyObj, 0),        \* no body, no JSON content type
      Body("malformed", EmptyObj, 0),     \* application/json, not parseable
      Body("object", EmptyObj, 0),        \* {}
      Body("array", EmptyObj, 1),         \* [1]
      Body("object", [user_id |-> "u1", device_type |-> "android",
                      app_version |-> "2.3"], 3),
      Body("object", [device_type |-> "ios"], 1) }

Faults == {"KeyError: 'k'", "division by zero"}

Request(route, body, fault) == [route |-> route, body |-> body, fault |-> fault]

NoBody == Body("absent", EmptyObj, 0)

Requests ==
    { Request("ping", NoBody, ""), Request("status", NoBody, ""),
      Request("unknown", NoBody, ""), Request("abort400", NoBody, "") }
    \cup { Request("create", b, "") : b \in Bodies }
    \cup { Request("fault", NoBody, f) : f \in Faults }

NoRequest == Request("none", NoBody, "")

NoResp == [code |-> 0, body |-> EmptyObj]

NoLocal == [data |-> NoBody, exc |-> "", user_id |-> "", device_type |-> "",
            app_version |-> "", session_id |-> "", created_at |-> "",
            last_activity |-> "", active_session_count |-> 0,
            pending_validation_count |-> 0]

LogEntry(level, event) == [level |-> level, event |-> event]

(* ---- library functions the views call --------------------------------- *)
\* datetime.now().isoformat()
IsoFormat(t) == ToString(t)

\* str(uuid.uuid4())
UuidStr(u) == "uuid-" \o ToString(u)

\* uuid.uuid4().hex[:8]: a prefix of the digits, several uuids share one
Hex8(u) == ToString(u \div 2)

\* uuid.uuid4(): a random 128-bit value; an output is taken to differ from
\* every identifier the program holds (the collision probability is
\* negligible)
Uuid4(held) == { u \in UUIDs : UuidStr(u) \notin held }

\* dict.get(key, default)
Get(d, k, default) == IF k \in DOMAIN d THEN d[k] ELSE default

\* Truthy with the empty containers taken for true (`if data is None`)
TruthyNotNone(b) == b.kind \in {"object", "array", "string"}

\* Python truthiness of a parsed JSON value (`if not data`)
Truthy(b) ==
    CASE b.kind = "null"   -> FALSE
      [] b.kind = "object" -> DOMAIN b.fields # {}
      [] b.kind = "array"  -> b.size > 0
      [] b.kind = "string" -> b.size > 0
      [] OTHER             -> FALSE

\* Outcomes of request.get_json(): [exc |-> "", data |-> value] on return,
\* [exc |-> str(e)] when it raises.  A body that is not parseable raises
\* BadRequest.  A request without a JSON content type yields None on older
\* framework releases and raises UnsupportedMediaType on newer ones.
GetJson(b) ==
    CASE b.kind = "malformed" ->
            { [exc |-> "400 Bad Request: Failed to decode JSON object",
               data |-> b] }
      [] b.kind = "absent" ->
            { [exc |-> "", data |-> Body("null", EmptyObj, 0)],
              [exc |-> "415 Unsupported Media Type", data |-> b] }
      [] OTHER -> { [exc |-> "", data |-> b] }

\* str(e) of the AttributeError `data.get` raises on a non-dict value
AttributeErrorText(b) ==
    IF b.kind = "array" THEN "'list' object has no attribute 'get'"
    ELSE "'str' object has no attribute 'get'"

\* The session identifiers the program holds: the keys of the registry and
\* the session_id of every call in progress
Held == DOMAIN active_sessions \cup { local[t].session_id : t \in Threads }

(* ---- initial state ---------------------------------------------------- *)
Init ==
    /\ active_sessions = EmptyObj
    /\ pending_validations = EmptyObj
    /\ openai_key \in {"", "sk-key"}
    /\ clock = 0
    /\ pc = [t \in Threads |-> "idle"]
    /\ req = [t \in Threads |-> NoRequest]
    /\ local = [t \in Threads |-> NoLocal]
    /\ reqLog = [t \in Threads |-> <<>>]
    /\ resp = [t \in Threads |-> NoResp]
    /\ inserts = 0
    /\ returned = {}

(* ---- the clock -------------------------------------------------------- *)
Tick ==
    /\ clock < MaxClock
    /\ clock' = clock + 1
    /\ UNCHANGED <<active_sessions, pending_validations, openai_key, pc, req,
                   local, reqLog, resp, inserts, returned>>

(* ---- dispatch --------------------------------------------------------- *)
\* The view or error handler the framework runs for a request.  "unknown"
\* is a path no route matches; "abort400" and "fault" are requests whose view
\* (a route of the optional chat blueprint) aborts with 400 or raises, so
\* that the framework calls the registered error handler
Dispatch(r) ==
    CASE r.route = "ping"     -> "ping"
      [] r.route = "status"   -> "st_read"
      [] r.route = "create"   -> "c_parse"
      [] r.route = "unknown"  -> "h404"
      [] r.route = "abort400" -> "h400"
      [] r.route = "fault"    -> "h500"

\* A request arrives on an idle worker; log_request_info runs before the view
log_request_info(t) ==
    /\ pc[t] = "idle"
    /\ \E r \in Requests :
        /\ req' = [req EXCEPT ![t] = r]
        /\ pc' = [pc EXCEPT ![t] = Dispatch(r)]
    /\ reqLog' = [reqLog EXCEPT ![t] = << LogEntry("info", "Request") >>]
    /\ UNCHANGED <<active_sessions, pending_validations, openai_key, clock,
                   local, resp, inserts, returned>>

\* log_response_info runs after the view or error handler returned; the
\* response then leaves, the request context is torn down and the worker is
\* free for the next request
log_response_info(t) ==
    /\ pc[t] = "after"
    /\ reqLog' = [reqLog EXCEPT ![t] = <<>>]
    /\ req' = [req EXCEPT ![t] = NoRequest]
    /\ resp' = [resp EXCEPT ![t] = NoResp]
    /\ pc' = [pc EXCEPT ![t] = "idle"]
    /\ UNCHANGED <<active_sessions, pending_validations, openai_key, clock,
                   local, inserts, returned>>

\* A view or handler returns `body, code` after logging `entries`
Return(t, entries, code, body) ==
    /\ reqLog' = [reqLog EXCEPT ![t] = @ \o entries]
    /\ resp' = [resp EXCEPT ![t] = [code |-> code, body |-> body]]
    /\ local' = [local EXCEPT ![t] = NoLocal]
    /\ pc' = [pc EXCEPT ![t] = "after"]

(* ---- GET /ping ------------------------------------------------------- *)
ping(t) ==
    /\ pc[t] = "ping"
    /\ Return(t, << LogEntry("info", "Ping request received") >>, 200,
              [status |-> "ok", message |-> "Server is running",
               timestamp |-> IsoFormat(clock)])
    /\ UNCHANGED <<active_sessions, pending_validations, openai_key, clock,
                   req, inserts, returned>>

(* ---- GET /status ------------------------------------------------------ *)
\* Len_ counting one entry too many
LenOffByOne(d) == Cardinality(DOMAIN d) + 1

\* len(d)
Len_(d) == Cardinality(DOMAIN d)

\* f'{active_session_count} active'
FormatSessions(n) == ToString(n) \o " active"

\* f'{pending_validation_count} pending'
FormatValidations(n) == ToString(n) \o " pending"

\* app.config['MAX_CONTENT_LENGTH']
MAX_CONTENT_LENGTH == 16 * 1024 * 1024

\* lines 55-64: log, then read both counters
status_read(t) ==
    /\ pc[t] = "st_read"
    /\ reqLog' = [reqLog EXCEPT ![t] =
                    Append(@, LogEntry("info", "Status check requested"))]
    /\ local' = [local EXCEPT
                    ![t].active_session_count = Len_(active_sessions),
                    ![t].pending_validation_count = Len_(pending_validations)]
    /\ pc' = [pc EXCEPT ![t] = "st_resp"]
    /\ UNCHANGED <<active_sessions, pending_validations, openai_key, clock,
                   req, resp, inserts, returned>>

\* lines 67-85: build the snapshot and return it.  The keys the config
\* object may or may not set (model name, session lifetime, rate limit) are
\* shown with the defaults the view passes to app.config.get
status_respond(t) ==
    /\ pc[t] = "st_resp"
    /\ Return(t, <<>>, 200,
              [status |-> "healthy",
               timestamp |-> IsoFormat(clock),
               environment |-> "development",
               services |->
                 [openai |-> IF openai_key # "" THEN "configured"
                             ELSE "not_configured",
                  openai_model |-> "not_set",
                  sessions |-> FormatSessions(local[t].active_session_count),
                  validations |->
                      FormatValidations(local[t].pending_validation_count)],
               config |->
                 [max_content_length_mb |->
                      MAX_CONTENT_LENGTH \div (1024 * 1024),
                  session_lifetime_hours |-> (8 * 3600) \div 3600,
                  rate_limit_per_minute |-> 10],
               version |-> "1.0.0"])
    /\ UNCHANGED <<active_sessions, pending_validations, openai_key, clock,
                   req, inserts, returned>>

(* ---- error handlers --------------------------------------------------- *)
bad_request(t) ==
    /\ pc[t] = "h400"
    /\ Return(t, << LogEntry("warning", "Bad request") >>, 400,
              [error |-> "Bad Request",
               message |-> "The request data is malformed or invalid",
               timestamp |-> IsoFormat(clock)])
    /\ UNCHANGED <<active_sessions, pending_validations, openai_key, clock,
                   req, inserts, returned>>

not_found(t) ==
    /\ pc[t] = "h404"
    /\ Return(t, << LogEntry("warning", "Endpoint not found") >>, 404,
              [error |-> "Not Found",
               message |-> "The requested endpoint does not exist",
               timestamp |-> IsoFormat(clock)])
    /\ UNCHANGED <<active_sessions, pending_validations, openai_key, clock,
                   req, inserts, returned>>

internal_error(t) ==
    /\ pc[t] = "h500"
    /\ Return(t, << LogEntry("error", req[t].fault) >>, 500,
              [error |-> "Internal Server Error",
               message |->
                 "An unexpected error occurred. Please try again later.",
               timestamp |-> IsoFormat(clock)])
    /\ UNCHANGED <<active_sessions, pending_validations, openai_key, clock,
                   req, inserts, returned>>

(* ---- POST /api/session/create ----------------------------------------- *)
\* lines 157-159: data = request.get_json(); if not data: return ..., 400
crear_sesion_parse(t) ==
    /\ pc[t] = "c_parse"
    /\ \E o \in GetJson(req[t].body) :
        IF o.exc # ""
        THEN /\ local' = [local EXCEPT ![t].exc = o.exc]
             /\ pc' = [pc EXCEPT ![t] = "c_except"]
             /\ UNCHANGED <<reqLog, resp>>
        ELSE IF ~Truthy(o.data)
        THEN /\ Return(t, <<>>, 400, [error |-> "Datos requeridos"])
        ELSE /\ local' = [local EXCEPT ![t].data = o.data]
             /\ pc' = [pc EXCEPT ![t] = "c_user"]
             /\ UNCHANGED <<reqLog, resp>>
    /\ UNCHANGED <<active_sessions, pending_validations, openai_key, clock,
                   req, inserts, returned>>

\* lines 161-163: the three data.get calls; the default of the first one is
\* evaluated whether or not user_id is present.  data.get itself raises
\* AttributeError when data is not a dict.
crear_sesion_fields(t) ==
    /\ pc[t] = "c_user"
    /\ IF local[t].data.kind # "object"
       THEN /\ local' = [local EXCEPT
                            ![t].exc = AttributeErrorText(local[t].data)]
            /\ pc' = [pc EXCEPT ![t] = "c_except"]
       ELSE \E u \in Uuid4(Held) :
            /\ local' = [local EXCEPT
                 ![t].user_id = Get(local[t].data.fields, "user_id",
                                    "user_" \o Hex8(u)),
                 ![t].device_type = Get(local[t].data.fields, "device_type",
                                        "unknown"),
                 ![t].app_version = Get(local[t].data.fields, "app_version",
                                        "1.0.0")]
            /\ pc' = [pc EXCEPT ![t] = "c_id"]
    /\ UNCHANGED <<active_sessions, pending_validations, openai_key, clock,
                   req, reqLog, resp, inserts, returned>>

\* line 166: session_id = str(uuid.uuid4())
crear_sesion_id(t) ==
    /\ pc[t] = "c_id"
    /\ \E u \in Uuid4(Held) :
        /\ local' = [local EXCEPT ![t].session_id = UuidStr(u)]
    /\ pc' = [pc EXCEPT ![t] = "c_created"]
    /\ UNCHANGED <<active_sessions, pending_validations, openai_key, clock,
                   req, reqLog, resp, inserts, returned>>

\* line 174: 'created_at': datetime.now().isoformat()
crear_sesion_created_at(t) ==
    /\ pc[t] = "c_created"
    /\ local' = [local EXCEPT ![t].created_at = IsoFormat(clock)]
    /\ pc' = [pc EXCEPT ![t] = "c_last"]
    /\ UNCHANGED <<active_sessions, pending_validations, openai_key, clock,
                   req, reqLog, resp, inserts, returned>>

\* line 175: 'last_activity': datetime.now().isoformat()
crear_sesion_last_activity(t) ==
    /\ pc[t] = "c_last"
    /\ local' = [local EXCEPT ![t].last_activity = IsoFormat(clock)]
    /\ pc' = [pc EXCEPT ![t] = "c_store"]
    /\ UNCHANGED <<active_sessions, pending_validations, openai_key, clock,
                   req, reqLog, resp, inserts, returned>>

\* SessionData with the id field filled from the wrong local
SessionDataWrongId(l) ==
    [id |-> l.user_id, user_id |-> l.user_id,
     device_type |-> l.device_type, app_version |-> l.app_version,
     created_at |-> l.created_at, last_activity |-> l.last_activity,
     interaction_count |-> 0]

\* lines 169-177: the session_data dict
SessionData(l) ==
    [id |-> l.session_id, user_id |-> l.user_id,
     device_type |-> l.device_type, app_version |-> l.app_version,
     created_at |-> l.created_at, last_activity |-> l.last_activity,
     interaction_count |-> 0]

\* StoreSession that loses the store
StoreSessionDropped(d, k, v) == d

\* StoreSession that rebinds the dict to the new entry alone
StoreSessionOverwrite(d, k, v) == [x \in {k} |-> v]

\* d[k] = v on a dict: one atomic store under the interpreter lock
StoreSession(d, k, v) ==
    [x \in DOMAIN d \cup {k} |-> IF x = k THEN v ELSE d[x]]

\* line 180: active_sessions[session_id] = session_data
crear_sesion_store(t) ==
    /\ pc[t] = "c_store"
    /\ active_sessions' = StoreSession(active_sessions, local[t].session_id,
                                       SessionData(local[t]))
    /\ inserts' = inserts + 1
    /\ pc' = [pc EXCEPT ![t] = "c_ret"]
    /\ UNCHANGED <<pending_validations, openai_key, clock, req, local,
                   reqLog, resp, returned>>

\* lines 182-189: log the new session and return 201
crear_sesion_return(t) ==
    /\ pc[t] = "c_ret"
    /\ Return(t, << LogEntry("info", "Nueva sesion creada") >>, 201,
              [session_id |-> local[t].session_id,
               status |-> "created",
               message |-> "Sesion creada exitosamente",
               timestamp |-> IsoFormat(clock)])
    /\ returned' = returned \cup {local[t].session_id}
    /\ UNCHANGED <<active_sessions, pending_validations, openai_key, clock,
                   req, inserts>>

\* lines 191-196: except Exception as e
crear_sesion_except(t) ==
    /\ pc[t] = "c_except"
    /\ Return(t, << LogEntry("error", local[t].exc) >>, 500,
              [error |-> "Error interno del servidor",
               message |-> local[t].exc])
    /\ UNCHANGED <<active_sessions, pending_validations, openai_key, clock,
                   req, inserts, returned>>

(* ---- specification ---------------------------------------------------- *)
Next ==
    \/ Tick
    \/ \E t \in Threads : log_request_info(t)
    \/ \E t \in Threads : log_response_info(t)
    \/ \E t \in Threads : ping(t)
    \/ \E t \in Threads : status_read(t)
    \/ \E t \in Threads : status_respond(t)
    \/ \E t \in Threads : bad_request(t)
    \/ \E t \in Threads : not_found(t)
    \/ \E t \in Threads : internal_error(t)
    \/ \E t \in Threads : crear_sesion_parse(t)
    \/ \E t \in Threads : crear_sesion_fields(t)
    \/ \E t \in Threads : crear_sesion_id(t)
    \/ \E t \in Threads : crear_sesion_created_at(t)
    \/ \E t \in Threads : crear_sesion_last_activity(t)
    \/ \E t \in Threads : crear_sesion_store(t)
    \/ \E t \in Threads : crear_sesion_return(t)
    \/ \E t \in Threads : crear_sesion_except(t)

Spec == Init /\ [][Next]_vars

(* ---- properties ------------------------------------------------------ *)
IsCreate(t) == req[t].route = "create"

\* A payload create_session accepts: a non-empty JSON object
ValidPayload(b) == b.kind = "object" /\ DOMAIN b.fields # {}

\* Thread t has produced the response of its current request
Done(t) == pc[t] = "after"

\* Thread t takes a step of the request it is serving
Steps(t) == pc[t] # "idle" /\ pc'[t] # pc[t]

Count(d) == Cardinality(DOMAIN d)

\* A response body with its timestamp field removed
WithoutTimestamp(b) == [k \in DOMAIN b \ {"timestamp"} |-> b[k]]

HasLog(t, level) == \E i \in 1..Len(reqLog[t]) : reqLog[t][i].level = level

\* C1: a create_session call with a valid payload answers 201 "created" with
\* a session_id that was not a key of active_sessions before its insert, the
\* insert adds exactly one entry, and the returned id is a key afterwards.
C1_ValidCreateAddsOne ==
    [][\A t \in Threads :
        /\ (pc[t] = "c_store" /\ pc'[t] # pc[t]) =>
              /\ local[t].session_id \notin DOMAIN active_sessions
              /\ local[t].session_id \in DOMAIN active_sessions'
              /\ Count(active_sessions') = Count(active_sessions) + 1
        /\ (IsCreate(t) /\ ValidPayload(req[t].body) /\ Steps(t)
              /\ pc'[t] = "after") =>
              /\ resp'[t].code = 201
              /\ resp'[t].body.status = "created"
              /\ resp'[t].body.session_id \in DOMAIN active_sessions'
      ]_vars

C1_Witness ==
    \E t \in Threads :
        /\ IsCreate(t) /\ ValidPayload(req[t].body) /\ Done(t)
        /\ resp[t].code = 201
        /\ Count(active_sessions) = 2

\* C2: with create_session calls interleaved on several threads no insert is
\* lost or overwritten: the registry holds one entry per completed insert,
\* every completed insert is either returned or about to be, and the ids
\* returned to different callers are pairwise distinct keys of the registry.
C2_ConcurrentCreatesKept ==
    /\ Count(active_sessions) = inserts
    /\ inserts = Cardinality(returned)
                   + Cardinality({t \in Threads : pc[t] = "c_ret"})
    /\ returned \subseteq DOMAIN active_sessions
    /\ \A t1, t2 \in Threads :
          (t1 # t2 /\ resp[t1].code = 201 /\ resp[t2].code = 201) =>
              resp[t1].body.session_id # resp[t2].body.session_id

C2_Witness ==
    /\ pc[1] = "c_ret" /\ pc[2] = "c_ret"
    /\ Count(active_sessions) = 2

\* C3: create_session with a missing, empty, null or unparseable payload
\* answers 400, never 500 and never 201.
C3_InvalidPayloadAnswers400 ==
    \A t \in Threads :
        (IsCreate(t) /\ Done(t) /\ ~ValidPayload(req[t].body)) =>
            resp[t].code = 400

\* C4: no step of a create_session call whose payload is missing, empty,
\* malformed or not an object changes active_sessions, and such a call ends
\* with 400 or 500.
C4_FailedCreateLeavesRegistry ==
    [][\A t \in Threads :
        (IsCreate(t) /\ ~ValidPayload(req[t].body) /\ Steps(t)) =>
            /\ active_sessions' = active_sessions
            /\ pc'[t] = "after" => resp'[t].code \in {400, 500}
      ]_vars

C4_Witness ==
    \E t \in Threads :
        /\ IsCreate(t) /\ Done(t) /\ resp[t].code = 500
        /\ Count(active_sessions) = 1

\* C5: every error response (400, 404, 500) carries the three fields error,
\* message and timestamp.
C5_ErrorEnvelopeComplete ==
    \A t \in Threads :
        resp[t].code \in {400, 404, 500} =>
            {"error", "message", "timestamp"} \subseteq DOMAIN resp[t].body

\* C6: two 500 responses of the same route have the same body up to the
\* timestamp, whatever exception caused them.
C6_500BodyIndependentOfFault ==
    \A t1, t2 \in Threads :
        (resp[t1].code = 500 /\ resp[t2].code = 500
            /\ req[t1].route = req[t2].route) =>
            WithoutTimestamp(resp[t1].body) = WithoutTimestamp(resp[t2].body)

\* C7: a session id that create_session has returned is a key of
\* active_sessions mapped to a record whose id is that key, and no later step
\* removes, replaces or modifies the record.
C7_ReturnedSessionPermanent ==
    [][\A s \in returned' :
        /\ s \in DOMAIN active_sessions'
        /\ active_sessions'[s].id = s
        /\ s \in returned =>
              /\ s \in DOMAIN active_sessions
              /\ active_sessions'[s] = active_sessions[s]
      ]_vars

C7_Witness ==
    \E s \in returned : \E t \in Threads :
        /\ Done(t) /\ resp[t].code = 201
        /\ resp[t].body.session_id # s
        /\ active_sessions[s].id = s

\* C8: the status view answers 200 "healthy", none of its steps changes
\* active_sessions or pending_validations, the count it reads equals the
\* number of inserts completed at that instant, and that count is the one it
\* reports.
C8_StatusPureObservation ==
    [][\A t \in Threads :
        /\ (pc[t] \in {"st_read", "st_resp"} /\ pc'[t] # pc[t]) =>
              /\ active_sessions' = active_sessions
              /\ pending_validations' = pending_validations
        /\ (pc[t] = "st_read" /\ pc'[t] # pc[t]) =>
              local'[t].active_session_count = inserts
        /\ (pc[t] = "st_resp" /\ pc'[t] # pc[t]) =>
              /\ resp'[t].code = 200
              /\ resp'[t].body.status = "healthy"
              /\ resp'[t].body.services.sessions =
                    ToString(local[t].active_session_count) \o " active"
      ]_vars

C8_Witness ==
    \E t \in Threads :
        /\ req[t].route = "status" /\ Done(t) /\ resp[t].code = 200
        /\ resp[t].body.services.sessions = "1 active"
        /\ inserts = 1

\* C9: every error response has a log entry of its request before it: at
\* warning level for 400 and 404, at error level for 500.
C9_ErrorLoggedBeforeResponse ==
    \A t \in Threads :
        /\ resp[t].code \in {400, 404} => HasLog(t, "warning")
        /\ resp[t].code = 500 => HasLog(t, "error")

\* C10: every record in active_sessions has created_at equal to
\* last_activity and interaction_count 0.
C10_TimestampsEqual ==
    \A s \in DOMAIN active_sessions :
        /\ active_sessions[s].created_at = active_sessions[s].last_activity
        /\ active_sessions[s].interaction_count = 0

====
